---- MODULE Spec2Model ----
(***************************************************************************)
(* Grading, result views and role tables of exam-ace.                      *)
(*                                                                         *)
(* The stored tables (exam_submissions, student_answers, exams,            *)
(* user_roles, profiles, auth.users app_metadata) are the shared state;    *)
(* the React components SubmissionDetail, StudentResults and ReportCard    *)
(* hold local copies of what they fetched.  Every await of a supabase      *)
(* call is one step, so other sessions interleave between two awaits.      *)
(*                                                                         *)
(* A nullable column is a set: {} is SQL NULL / JS null, {v} is the        *)
(* value v.                                                                *)
(***************************************************************************)
EXTENDS Integers, Sequences, FiniteSets, TLC

(* ------------------------------ bounds -------------------------------- *)

\* answers (questions) per submission
NAns == 2
\* marks of every question
QMarks == 1
\* input events (handleGradeUpdate, Save Grading clicks) per mounted SubmissionDetail
MaxOps == 3
\* largest max_score of a submission whose letter grades are compared
MaxScore == 23
\* largest max_score of each of two submissions that are aggregated
MaxPart == 12
\* the scale of a percentage: (total_score / max_score) * 100
PctScale == 100

(* ------------------------------ domains ------------------------------- *)

Null == {}
Some(v) == {v}
Val(s) == CHOOSE v \in s : TRUE

Roles == {"student", "teacher", "admin"}
Users == {"u1", "u2"}
Sessions == {"c1", "c2"}
SubIds == {"s1", "s2", "s3"}
ExamIds == {"e1", "e2"}
AnsIdx == 1..NAns

\* what a grader can type into the number input: the max attribute does not
\* stop typed values, and there is no min.  The values around both ends of
\* 0..question.marks.
MarksInput == {0 - 1, 0, QMarks, QMarks + 1}
FeedbackInput == {"f"}

AnswerId(sub, i) == <<sub, i>>

\* no request was served yet.  meta_role and profile are the role text and the
\* profile values of the event of the last handle_new_user, synced whether it
\* wrote the role to raw_app_metadata
NoOp ==
  [name |-> "none", by |-> "none", meta_role |-> Null, synced |-> FALSE, profile |-> Null]

(* ------------------------------ state --------------------------------- *)

VARIABLES
  exam_submissions,  \* table: id -> row
  student_answers,   \* table: answer id -> row
  exams,             \* table: id -> row
  \* SubmissionDetail, one per session
  user,              \* useAuth().user, Null while signed out
  role,              \* useAuth().role
  id,                \* route parameter, Null while not mounted
  loading,
  submission,        \* useState<Submission | null>
  answers,           \* useState<Answer[]>
  fetchPc,           \* position of the running fetchData: "idle", "sub", "profile", "ans"
  subData,           \* the row fetchData read, until setSubmission
  saving,
  savePc,            \* position of the running saveGrading: "idle", "answers", "submission"
  batch,             \* the answers array the running saveGrading closed over
  idx,               \* index of the next answer the loop writes
  toast,             \* last toast shown: "none", "Success", "Error", "LoadError"
  ops,               \* counts the input events, to bound the run
  requested,         \* the identity has asked the view for the grading operation
  pre,               \* the stored submission and answers when saveGrading began
  \* StudentResults and ReportCard, one of each per session
  results,           \* StudentResults: useState<Result[]>
  resultsLoading,
  data,              \* ReportCard: useState<ReportCardData>
  dataLoading,
  dataOk,            \* the last report query was answered with rows, not an error
  fetches,           \* StudentResults: the fetchResults calls started, and those in flight
  \* identity tables
  profiles,          \* table, unique on user_id: user_id -> Null or a row
  user_roles,        \* table, unique on (user_id, role): a set of rows
  auth_users,        \* auth.users: id -> Null or a row, of which raw_app_metadata ->> 'role'
  op                 \* the last request served on the identity tables, and its requester

dbVars == <<exam_submissions, student_answers, exams>>
detailVars == <<user, role, id, loading, submission, answers, fetchPc, subData, saving, savePc,
                batch, idx, toast, ops, requested, pre>>
viewVars == <<results, resultsLoading, data, dataLoading, dataOk, fetches>>
roleVars == <<profiles, user_roles, auth_users, op>>
vars == <<dbVars, detailVars, viewVars, roleVars>>

(* ------------------------- stored rows -------------------------------- *)

SubmissionRow(student, exam, at, total, max, graded) ==
  [student_id |-> student, exam_id |-> exam, submitted_at |-> at,
   total_score |-> total, max_score |-> max, is_graded |-> graded]

AnswerRow(sub, i) ==
  [submission_id |-> sub, question_id |-> i, is_correct |-> Null,
   marks_awarded |-> Null, feedback |-> Null]

\* questions.marks of the question an answer belongs to
QuestionMarks(q) == QMarks

(* ------------------------- SubmissionDetail --------------------------- *)

\* the role test with the student role let through
isTeacher_anyRole(r) == r \in Roles

\* const isTeacher = role === 'teacher' || role === 'admin'
isTeacher(r) == r = "teacher" \/ r = "admin"

\* a.marks_awarded || 0
OrZero(m) == IF m = Null THEN 0 ELSE Val(m)

RECURSIVE SumMarks(_, _)
SumMarks(as, n) ==
  IF n = 0 THEN 0 ELSE SumMarks(as, n - 1) + OrZero(as[n].marks_awarded)

\* answers.reduce((sum, a) => sum + (a.marks_awarded || 0), 0)
totalScore(as) == SumMarks(as, Len(as))

\* .from('exam_submissions').select(...).eq('id', id).single()
selectSubmissionById(i) ==
  IF i \in DOMAIN exam_submissions THEN Some([id |-> i] @@ exam_submissions[i]) ELSE Null

\* .from('student_answers').select('*, question:questions(*)')
\*   .eq('submission_id', id).order('created_at')
selectAnswersOf(sub) ==
  [i \in AnsIdx |->
     LET a == student_answers[AnswerId(sub, i)]
     IN [id |-> AnswerId(sub, i), is_correct |-> a.is_correct,
         marks_awarded |-> a.marks_awarded, feedback |-> a.feedback,
         question |-> [marks |-> QuestionMarks(a.question_id)]]]

\* the three columns the per-answer update sets
answerUpdate(row, a) ==
  [row EXCEPT !.is_correct = a.is_correct,
              !.marks_awarded = a.marks_awarded,
              !.feedback = a.feedback]

\* the two columns the submission update sets
submissionUpdate(row, as) ==
  [row EXCEPT !.total_score = totalScore(as), !.is_graded = TRUE]

\* the view renders (neither the spinner nor null)
Rendered(g) == ~loading[g] /\ submission[g] # Null

\* useEffect: the component mounts with a route id and, if (id && user), calls
\* fetchData
Mount(g, i) ==
  /\ id[g] = Null
  /\ user[g] # Null
  /\ id' = [id EXCEPT ![g] = Some(i)]
  /\ fetchPc' = [fetchPc EXCEPT ![g] = "sub"]
  /\ UNCHANGED <<viewVars, roleVars, dbVars, user, role, loading, submission, answers, subData, saving, savePc,
                 batch, idx, toast, ops, requested, pre>>

\* fetchData, first await: the submission row; an error or no row throws
FetchSubmission(g, ok) ==
  /\ fetchPc[g] = "sub"
  /\ LET got == selectSubmissionById(Val(id[g]))
     IN IF ok /\ got # Null
        THEN /\ subData' = [subData EXCEPT ![g] = got]
             /\ fetchPc' = [fetchPc EXCEPT ![g] = "profile"]
             /\ UNCHANGED <<toast, loading>>
        ELSE /\ toast' = [toast EXCEPT ![g] = "LoadError"]
             /\ loading' = [loading EXCEPT ![g] = FALSE]
             /\ fetchPc' = [fetchPc EXCEPT ![g] = "idle"]
             /\ UNCHANGED subData
  /\ UNCHANGED <<viewVars, roleVars, dbVars, user, role, id, submission, answers, saving, savePc,
                 batch, idx, ops, requested, pre>>

\* fetchData, second await: the profile (its error is ignored), then setSubmission
FetchProfile(g) ==
  /\ fetchPc[g] = "profile"
  /\ submission' =
       [submission EXCEPT ![g] =
          Some([student_profile |-> profiles[Val(subData[g]).student_id]]
                 @@ Val(subData[g]))]
  /\ subData' = [subData EXCEPT ![g] = Null]
  /\ fetchPc' = [fetchPc EXCEPT ![g] = "ans"]
  /\ UNCHANGED <<viewVars, roleVars, dbVars, user, role, id, loading, answers, saving, savePc,
                 batch, idx, toast, ops, requested, pre>>

\* fetchData, third await: the answers, then setAnswers; finally setLoading(false)
FetchAnswers(g, ok) ==
  /\ fetchPc[g] = "ans"
  /\ IF ok
     THEN /\ answers' = [answers EXCEPT ![g] = selectAnswersOf(Val(id[g]))]
          /\ UNCHANGED toast
     ELSE /\ toast' = [toast EXCEPT ![g] = "LoadError"]
          /\ UNCHANGED answers
  /\ loading' = [loading EXCEPT ![g] = FALSE]
  /\ fetchPc' = [fetchPc EXCEPT ![g] = "idle"]
  /\ UNCHANGED <<viewVars, roleVars, dbVars, user, role, id, submission, subData, saving, savePc,
                 batch, idx, ops, requested, pre>>

\* prev.map(a => a.id === answerId ? { ...a, ...updates } : a)
applyUpdate(as, answerId, field, v) ==
  [k \in DOMAIN as |->
     IF as[k].id = answerId
     THEN IF field = "marks_awarded" THEN [as[k] EXCEPT !.marks_awarded = v]
                                     ELSE [as[k] EXCEPT !.feedback = v]
     ELSE as[k]]

\* the Marks Awarded input or the Feedback textarea changes; both are rendered
\* for a teacher or admin only
handleGradeUpdate(g, k, field, v) ==
  /\ Rendered(g)
  /\ isTeacher(role[g])
  /\ k \in DOMAIN answers[g]
  /\ ops[g] < MaxOps
  /\ ops' = [ops EXCEPT ![g] = @ + 1]
  /\ answers' = [answers EXCEPT ![g] = applyUpdate(@, answers[g][k].id, field, v)]
  /\ UNCHANGED <<viewVars, roleVars, dbVars, user, role, id, loading, submission, fetchPc, subData, saving, savePc,
                 batch, idx, toast, requested, pre>>

\* what is stored for one submission: its row and its answers' graded columns
Stored(sub) ==
  [sub |-> exam_submissions[sub],
   ans |-> [i \in AnsIdx |-> student_answers[AnswerId(sub, i)]]]

\* the Save Grading button: rendered for a teacher or admin only, disabled while
\* saving.  For any other role the view has no control to ask with, and the
\* request changes nothing.  On a click saveGrading runs up to its first await.
SaveGradingClick(g) ==
  /\ Rendered(g)
  /\ requested' = [requested EXCEPT ![g] = TRUE]
  /\ IF isTeacher(role[g])
     THEN /\ ~saving[g]
          /\ ops[g] < MaxOps
          /\ ops' = [ops EXCEPT ![g] = @ + 1]
          /\ saving' = [saving EXCEPT ![g] = TRUE]
          /\ batch' = [batch EXCEPT ![g] = answers[g]]
          /\ idx' = [idx EXCEPT ![g] = 1]
          /\ savePc' = [savePc EXCEPT ![g] =
                          IF Len(answers[g]) = 0 THEN "submission" ELSE "answers"]
          /\ pre' = [pre EXCEPT ![g] = Some(Stored(Val(id[g])))]
     ELSE UNCHANGED <<ops, saving, batch, idx, savePc, pre>>
  /\ UNCHANGED <<viewVars, roleVars, dbVars, user, role, id, loading, submission, answers, fetchPc, subData,
                 toast>>

\* saveGrading ends in its catch: the error toast, then finally setSaving(false)
SaveFailed(g) ==
  /\ toast' = [toast EXCEPT ![g] = "Error"]
  /\ saving' = [saving EXCEPT ![g] = FALSE]
  /\ savePc' = [savePc EXCEPT ![g] = "idle"]
  /\ batch' = [batch EXCEPT ![g] = <<>>]
  /\ idx' = [idx EXCEPT ![g] = 1]
  /\ pre' = [pre EXCEPT ![g] = Null]

\* the loop turn with the submission update moved where it also runs after a
\* failed answer write
SaveAnswer_totalOnError(g, ok) ==
  /\ savePc[g] = "answers"
  /\ LET a == batch[g][idx[g]]
     IN IF ok
        THEN /\ student_answers' =
                  [student_answers EXCEPT ![a.id] = answerUpdate(@, a)]
             /\ idx' = [idx EXCEPT ![g] = @ + 1]
             /\ savePc' = [savePc EXCEPT ![g] =
                             IF idx[g] = Len(batch[g]) THEN "submission" ELSE "answers"]
             /\ UNCHANGED <<toast, saving, batch, pre, exam_submissions>>
        ELSE /\ SaveFailed(g)
             /\ exam_submissions' =
                  [exam_submissions EXCEPT ![Val(id[g])] = submissionUpdate(@, batch[g])]
             /\ UNCHANGED student_answers
  /\ UNCHANGED <<viewVars, roleVars, exams, user, role, id, loading, submission, answers,
                 fetchPc, subData, ops, requested>>

\* one turn of the loop: the update of one answer row; its error throws
SaveAnswer(g, ok) ==
  /\ savePc[g] = "answers"
  /\ LET a == batch[g][idx[g]]
     IN IF ok
        THEN /\ student_answers' =
                  [student_answers EXCEPT ![a.id] = answerUpdate(@, a)]
             /\ idx' = [idx EXCEPT ![g] = @ + 1]
             /\ savePc' = [savePc EXCEPT ![g] =
                             IF idx[g] = Len(batch[g]) THEN "submission" ELSE "answers"]
             /\ UNCHANGED <<toast, saving, batch, pre>>
        ELSE /\ SaveFailed(g)
             /\ UNCHANGED student_answers
  /\ UNCHANGED <<viewVars, roleVars, exam_submissions, exams, user, role, id, loading, submission, answers,
                 fetchPc, subData, ops, requested>>

\* after the loop: the update of the submission row; on success the toast and
\* fetchData(), which is not awaited; finally setSaving(false).  A fetchData
\* of this component still running from an earlier save is superseded by the
\* new one.
SaveSubmission(g, ok) ==
  /\ savePc[g] = "submission"
  /\ IF ok
     THEN /\ exam_submissions' =
               [exam_submissions EXCEPT ![Val(id[g])] = submissionUpdate(@, batch[g])]
          /\ toast' = [toast EXCEPT ![g] = "Success"]
          /\ fetchPc' = [fetchPc EXCEPT ![g] = "sub"]
          /\ subData' = [subData EXCEPT ![g] = Null]
          /\ saving' = [saving EXCEPT ![g] = FALSE]
          /\ savePc' = [savePc EXCEPT ![g] = "idle"]
          /\ batch' = [batch EXCEPT ![g] = <<>>]
          /\ idx' = [idx EXCEPT ![g] = 1]
          /\ pre' = [pre EXCEPT ![g] = Null]
     ELSE /\ SaveFailed(g)
          /\ UNCHANGED <<exam_submissions, fetchPc, subData>>
  /\ UNCHANGED <<viewVars, roleVars, student_answers, exams, user, role, id, loading, submission, answers,
                 ops, requested>>

(* ----------------------------- numbers -------------------------------- *)

\* a JS number: an integer, NaN (0/0) or Infinity (n/0)
Num(n) == [k |-> "num", v |-> n]
NaN == [k |-> "nan", v |-> 0]
Infinity == [k |-> "inf", v |-> 0]

\* x >= n for a JS number x and an integer n; every comparison with NaN is false
GE(x, n) == x.k = "inf" \/ (x.k = "num" /\ x.v >= n)

\* Math.round((total / max) * 100): the nearest integer, a half rounds up
roundPct(total, max) ==
  IF max = 0
  THEN IF total = 0 THEN NaN ELSE Infinity
  ELSE Num((200 * total + max) \div (2 * max))

(* ----------------------------- StudentResults ------------------------- *)

\* the embedded exam:exams(title, subject, results_published)
examOf(s) == Some(exams[exam_submissions[s].exam_id])

\* a DESC NULLS FIRST b on submitted_at
atOrAfter(a, b) == a = Null \/ (b # Null /\ Val(a) >= Val(b))

\* .order('submitted_at', { ascending: false })
RECURSIVE orderBySubmittedAtDesc(_)
orderBySubmittedAtDesc(S) ==
  IF S = {} THEN <<>>
  ELSE LET m == CHOOSE x \in S :
                  \A y \in S : atOrAfter(exam_submissions[x].submitted_at,
                                         exam_submissions[y].submitted_at)
       IN <<m>> \o orderBySubmittedAtDesc(S \ {m})

\* .eq('student_id', user.id).not('submitted_at', 'is', null)
resultsFilter(u) ==
  {s \in DOMAIN exam_submissions :
     /\ exam_submissions[s].student_id = u
     /\ exam_submissions[s].submitted_at # Null}

\* select('*, exam:exams(title, subject, results_published)')
resultsQuery(u) ==
  LET ids == orderBySubmittedAtDesc(resultsFilter(u))
  IN [k \in DOMAIN ids |->
        [id |-> ids[k], exam |-> examOf(ids[k])] @@ exam_submissions[ids[k]]]

\* fetchResults: setResults(data || []), finally setLoading(false)
fetchResults(g, ok) ==
  /\ user[g] # Null
  /\ results' = [results EXCEPT ![g] = IF ok THEN resultsQuery(Val(user[g])) ELSE <<>>]
  /\ resultsLoading' = [resultsLoading EXCEPT ![g] = FALSE]
  /\ UNCHANGED <<dbVars, detailVars, roleVars, data, dataLoading, dataOk, fetches>>

\* fetchResults up to its await.  The useEffect calls it when the page mounts
\* (no call was sent yet), and the callbacks of the two realtime channels call
\* it on a change notification: the rows of the student's list are not those
\* the last call was sent for.  The query is answered from the tables as they
\* are now; the answer is in flight until ResultsArrive
StartFetchResults(g) ==
  /\ user[g] # Null
  /\ LET now == resultsQuery(Val(user[g]))
     IN /\ fetches[g].sent = 0 \/ now # fetches[g].known
        /\ fetches' =
             [fetches EXCEPT ![g] =
                [sent |-> @.sent + 1,
                 known |-> now,
                 pending |-> @.pending \cup {[seq |-> @.sent + 1, data |-> now]},
                 shown |-> @.shown]]
  /\ UNCHANGED <<dbVars, detailVars, roleVars, results, resultsLoading, data, dataLoading,
                 dataOk>>

\* fetchResults after its await: the answer of the n-th call, one of those in
\* flight, arrives, in any order; setResults(data || []), finally
\* setLoading(false)
ResultsArrive(g, n) ==
  /\ \E r \in fetches[g].pending :
       /\ r.seq = n
       /\ results' = [results EXCEPT ![g] = r.data]
       /\ fetches' = [fetches EXCEPT ![g].pending = @ \ {r}, ![g].shown = n]
  /\ resultsLoading' = [resultsLoading EXCEPT ![g] = FALSE]
  /\ UNCHANGED <<dbVars, detailVars, roleVars, data, dataLoading, dataOk>>

\* the thresholds taken as strict: pct > 90, > 80, > 70, > 60
getGrade_strict(pct) ==
  IF GE(pct, 91) THEN "A"
  ELSE IF GE(pct, 81) THEN "B"
  ELSE IF GE(pct, 71) THEN "C"
  ELSE IF GE(pct, 61) THEN "D"
  ELSE "F"

\* getGrade, of which the card takes the letter
getGrade(pct) ==
  IF GE(pct, 90) THEN "A"
  ELSE IF GE(pct, 80) THEN "B"
  ELSE IF GE(pct, 70) THEN "C"
  ELSE IF GE(pct, 60) THEN "D"
  ELSE "F"

\* the card with the score gated on the submission's is_graded instead of the
\* exam's results_published
resultCard_gatedOnGraded(result) ==
  LET pct == roundPct(result.total_score, result.max_score)
      published == result.is_graded
  IN [id |-> result.id,
      score |-> IF published THEN Some(<<result.total_score, result.max_score>>) ELSE Null,
      pct |-> IF published THEN Some(pct) ELSE Null,
      grade |-> IF published THEN Some(getGrade(pct)) ELSE Null,
      passed |-> IF published THEN Some(GE(pct, 60)) ELSE Null,
      pending |-> ~published,
      detailLink |-> result.is_graded]

\* what one card of the list shows; a part that is not rendered is Null
resultCard(result) ==
  LET pct == roundPct(result.total_score, result.max_score)
      published == result.exam # Null /\ Val(result.exam).results_published
  IN [id |-> result.id,
      score |-> IF published THEN Some(<<result.total_score, result.max_score>>) ELSE Null,
      pct |-> IF published THEN Some(pct) ELSE Null,
      grade |-> IF published THEN Some(getGrade(pct)) ELSE Null,
      passed |-> IF published THEN Some(GE(pct, 60)) ELSE Null,
      pending |-> ~published,
      detailLink |-> result.is_graded]

(* ----------------------------- ReportCard ----------------------------- *)

\* .eq('student_id', user.id).eq('is_graded', true)
reportFilter(u) ==
  {s \in DOMAIN exam_submissions :
     /\ exam_submissions[s].student_id = u
     /\ exam_submissions[s].is_graded}

\* .filter('exam.results_published', 'eq', true): the filter is on the embedded
\* resource, so a row whose exam fails it comes back with exam null
reportQuery(u) ==
  LET ids == orderBySubmittedAtDesc(reportFilter(u))
  IN [k \in DOMAIN ids |->
        LET row == exam_submissions[ids[k]]
        IN [id |-> ids[k], total_score |-> row.total_score, max_score |-> row.max_score,
            submitted_at |-> row.submitted_at,
            exam |-> IF exams[row.exam_id].results_published
                     THEN examOf(ids[k]) ELSE Null]]

hasExam(r) == r.exam # Null

\* the rows as the query returned them, the null exams kept
validResults_unfiltered(rows) == rows

\* (results || []).filter(r => r.exam)
validResults(rows) == SelectSeq(rows, hasExam)

\* fetchReportData: the profile, then the rows, then setData
fetchReportData(g, okProfile, ok) ==
  /\ user[g] # Null
  /\ data' = [data EXCEPT ![g] =
                [profile |-> IF okProfile THEN profiles[Val(user[g])] ELSE Null,
                 results |-> validResults(IF ok THEN reportQuery(Val(user[g])) ELSE <<>>)]]
  /\ dataLoading' = [dataLoading EXCEPT ![g] = FALSE]
  /\ dataOk' = [dataOk EXCEPT ![g] = ok]
  /\ UNCHANGED <<dbVars, detailVars, roleVars, results, resultsLoading, fetches>>

RECURSIVE sumField(_, _, _)
\* rows.reduce((sum, r) => sum + (r[field] || 0), 0)
sumField(rows, field, n) ==
  IF n = 0 THEN 0
  ELSE sumField(rows, field, n - 1)
         + (IF field = "total_score" THEN rows[n].total_score ELSE rows[n].max_score)

\* calculateStats: the grade is taken from the unrounded average
calculateStats(rows) ==
  IF Len(rows) = 0
  THEN [average |-> Num(0), totalObtained |-> 0, totalMax |-> 0, grade |-> "N/A"]
  ELSE LET totalObtained == sumField(rows, "total_score", Len(rows))
           totalMax == sumField(rows, "max_score", Len(rows))
           atLeast(n) == totalMax > 0 /\ 100 * totalObtained >= n * totalMax
       IN [average |-> IF totalMax > 0 THEN roundPct(totalObtained, totalMax) ELSE Num(0),
           totalObtained |-> totalObtained,
           totalMax |-> totalMax,
           grade |-> IF atLeast(90) THEN "A"
                     ELSE IF atLeast(80) THEN "B"
                     ELSE IF atLeast(70) THEN "C"
                     ELSE IF atLeast(60) THEN "D"
                     ELSE "F"]

\* getResultGrade: pct = (score / max) * 100 is not rounded; with max = 0 it is
\* Infinity for a positive score and NaN or -Infinity otherwise
getResultGrade(score, max) ==
  LET atLeast(n) == IF max = 0 THEN score > 0 ELSE 100 * score >= n * max
  IN IF atLeast(90) THEN "A"
     ELSE IF atLeast(80) THEN "B"
     ELSE IF atLeast(70) THEN "C"
     ELSE IF atLeast(60) THEN "D"
     ELSE "F"

\* one row of the report card's table: the percentage and the letter
reportRow(result) ==
  [id |-> result.id,
   pct |-> roundPct(result.total_score, result.max_score),
   grade |-> getResultGrade(result.total_score, result.max_score)]

\* the summary card of SubmissionDetail: total_score/max_score and
\* Math.round((submission.total_score / submission.max_score) * 100) percent
detailSummary(sub) ==
  [score |-> <<sub.total_score, sub.max_score>>,
   pct |-> roundPct(sub.total_score, sub.max_score)]

(* --------------------------- specification ---------------------------- *)

\* no SubmissionDetail is mounted and nothing was fetched
DetailInit ==
  /\ id = [g \in Sessions |-> Null]
  /\ loading = [g \in Sessions |-> TRUE]
  /\ submission = [g \in Sessions |-> Null]
  /\ answers = [g \in Sessions |-> <<>>]
  /\ fetchPc = [g \in Sessions |-> "idle"]
  /\ subData = [g \in Sessions |-> Null]
  /\ saving = [g \in Sessions |-> FALSE]
  /\ savePc = [g \in Sessions |-> "idle"]
  /\ batch = [g \in Sessions |-> <<>>]
  /\ idx = [g \in Sessions |-> 1]
  /\ toast = [g \in Sessions |-> "none"]
  /\ ops = [g \in Sessions |-> 0]
  /\ requested = [g \in Sessions |-> FALSE]
  /\ pre = [g \in Sessions |-> Null]

\* useState([]) / useState(true); useState({ profile: null, results: [] })
ViewInit ==
  /\ results = [g \in Sessions |-> <<>>]
  /\ resultsLoading = [g \in Sessions |-> TRUE]
  /\ data = [g \in Sessions |-> [profile |-> Null, results |-> <<>>]]
  /\ dataLoading = [g \in Sessions |-> TRUE]
  /\ dataOk = [g \in Sessions |-> FALSE]
  /\ fetches = [g \in Sessions |-> [sent |-> 0, known |-> <<>>, pending |-> {}, shown |-> 0]]

\* both users signed up as students
RoleInit ==
  /\ profiles = [u \in Users |-> Some([full_name |-> u, email |-> u])]
  /\ user_roles = {<<u, "student">> : u \in Users}
  /\ auth_users = [u \in Users |-> Some([app_role |-> Some("student")])]
  /\ op = NoOp

\* s1 is submitted and waits for grading, s2 is an attempt still in progress;
\* one session is signed in, with any role
Init ==
  /\ exam_submissions =
       [s \in {"s1", "s2"} |->
          IF s = "s1" THEN SubmissionRow("u1", "e1", Some(1), 0, NAns * QMarks, FALSE)
                      ELSE SubmissionRow("u1", "e2", Null, 0, NAns * QMarks, FALSE)]
  /\ student_answers =
       [a \in {"s1", "s2"} \X AnsIdx |-> AnswerRow(a[1], a[2])]
  /\ exams = [e \in ExamIds |-> [subject |-> e, results_published |-> FALSE]]
  /\ user = [g \in Sessions |-> IF g = "c1" THEN Some("u1") ELSE Null]
  /\ role \in {r \in [Sessions -> Roles \cup {"none"}] :
                 \A g \in Sessions : r[g] = "none" <=> user[g] = Null}
  /\ DetailInit
  /\ ViewInit
  /\ RoleInit

Next ==
  \E g \in Sessions :
    \/ \E i \in SubIds : Mount(g, i)
    \/ \E ok \in BOOLEAN : FetchSubmission(g, ok)
    \/ FetchProfile(g)
    \/ \E ok \in BOOLEAN : FetchAnswers(g, ok)
    \/ \E k \in AnsIdx, v \in MarksInput : handleGradeUpdate(g, k, "marks_awarded", Some(v))
    \/ \E k \in AnsIdx, v \in FeedbackInput : handleGradeUpdate(g, k, "feedback", Some(v))
    \/ SaveGradingClick(g)
    \/ \E ok \in BOOLEAN : SaveAnswer(g, ok)
    \/ \E ok \in BOOLEAN : SaveSubmission(g, ok)

Spec == Init /\ [][Next]_vars

(* ---------------------- a reader beside a grader ----------------------- *)

\* the marks a grader has typed for the answers of s1: none or all of each
TypedMarks == [AnsIdx -> {Some(0), Some(QMarks)}]

\* s1 waits for grading.  A teacher (session c1) has opened it, fetchData has
\* finished and the marks are typed; the student who owns it is signed in on
\* session c2 and has not opened it yet
ConcInit ==
  /\ exam_submissions =
       [s \in {"s1"} |-> SubmissionRow("u1", "e1", Some(1), 0, NAns * QMarks, FALSE)]
  /\ student_answers = [a \in {"s1"} \X AnsIdx |-> AnswerRow(a[1], a[2])]
  /\ exams = [e \in ExamIds |-> [subject |-> e, results_published |-> FALSE]]
  /\ RoleInit
  /\ ViewInit
  /\ user = [g \in Sessions |-> IF g = "c1" THEN Some("u2") ELSE Some("u1")]
  /\ role = [g \in Sessions |-> IF g = "c1" THEN "teacher" ELSE "student"]
  /\ id = [g \in Sessions |-> IF g = "c1" THEN Some("s1") ELSE Null]
  /\ loading = [g \in Sessions |-> g # "c1"]
  /\ submission =
       [g \in Sessions |->
          IF g = "c1"
          THEN Some([student_profile |-> profiles["u1"]] @@ Val(selectSubmissionById("s1")))
          ELSE Null]
  /\ \E typed \in TypedMarks :
       answers =
         [g \in Sessions |->
            IF g = "c1"
            THEN [i \in AnsIdx |->
                    [selectAnswersOf("s1")[i] EXCEPT !.marks_awarded = typed[i]]]
            ELSE <<>>]
  /\ fetchPc = [g \in Sessions |-> "idle"]
  /\ subData = [g \in Sessions |-> Null]
  /\ saving = [g \in Sessions |-> FALSE]
  /\ savePc = [g \in Sessions |-> "idle"]
  /\ batch = [g \in Sessions |-> <<>>]
  /\ idx = [g \in Sessions |-> 1]
  /\ toast = [g \in Sessions |-> "none"]
  /\ ops = [g \in Sessions |-> MaxOps - 1]
  /\ requested = [g \in Sessions |-> FALSE]
  /\ pre = [g \in Sessions |-> Null]

\* the teacher saves the grading once, every write of it succeeding, while the
\* student opens the same submission; each await of either is a step
ConcNext ==
  \E g \in Sessions :
    \/ Mount(g, "s1")
    \/ \E ok \in BOOLEAN : FetchSubmission(g, ok)
    \/ FetchProfile(g)
    \/ \E ok \in BOOLEAN : FetchAnswers(g, ok)
    \/ SaveGradingClick(g)
    \/ SaveAnswer(g, TRUE)
    \/ SaveSubmission(g, TRUE)

SpecConcurrent == ConcInit /\ [][ConcNext]_vars

(* ------------------------- two graders -------------------------------- *)

\* s1 waits for grading.  Two teacher sessions have opened it, the fetchData of each
\* has finished, and each has typed marks into their own copy of the answers
TwoGradersInit ==
  /\ exam_submissions =
       [s \in {"s1"} |-> SubmissionRow("u1", "e1", Some(1), 0, NAns * QMarks, FALSE)]
  /\ student_answers = [a \in {"s1"} \X AnsIdx |-> AnswerRow(a[1], a[2])]
  /\ exams = [e \in ExamIds |-> [subject |-> e, results_published |-> FALSE]]
  /\ RoleInit
  /\ ViewInit
  /\ user = [g \in Sessions |-> Some("u2")]
  /\ role = [g \in Sessions |-> "teacher"]
  /\ id = [g \in Sessions |-> Some("s1")]
  /\ loading = [g \in Sessions |-> FALSE]
  /\ submission =
       [g \in Sessions |->
          Some([student_profile |-> profiles["u1"]] @@ Val(selectSubmissionById("s1")))]
  /\ \E typed \in [Sessions -> TypedMarks] :
       answers =
         [g \in Sessions |->
            [i \in AnsIdx |->
               [selectAnswersOf("s1")[i] EXCEPT !.marks_awarded = typed[g][i]]]]
  /\ fetchPc = [g \in Sessions |-> "idle"]
  /\ subData = [g \in Sessions |-> Null]
  /\ saving = [g \in Sessions |-> FALSE]
  /\ savePc = [g \in Sessions |-> "idle"]
  /\ batch = [g \in Sessions |-> <<>>]
  /\ idx = [g \in Sessions |-> 1]
  /\ toast = [g \in Sessions |-> "none"]
  /\ ops = [g \in Sessions |-> MaxOps - 1]
  /\ requested = [g \in Sessions |-> FALSE]
  /\ pre = [g \in Sessions |-> Null]

\* each teacher saves the grading once, every write succeeding, and the
\* fetchData that follows the success runs; each await is a step
TwoGradersNext ==
  \E g \in Sessions :
    \/ SaveGradingClick(g)
    \/ SaveAnswer(g, TRUE)
    \/ SaveSubmission(g, TRUE)
    \/ \E ok \in BOOLEAN : FetchSubmission(g, ok)
    \/ FetchProfile(g)
    \/ \E ok \in BOOLEAN : FetchAnswers(g, ok)

SpecTwoGraders == TwoGradersInit /\ [][TwoGradersNext]_vars

(* ------------------ the results list beside a grader ------------------ *)

\* s1, of a published exam, waits for grading.  A teacher (session c1) has
\* opened it and fetchData has finished; the student who owns it is signed in
\* on session c2 and has not opened the results list yet
RefetchInit ==
  /\ exam_submissions =
       [s \in {"s1"} |-> SubmissionRow("u1", "e1", Some(1), 0, NAns * QMarks, FALSE)]
  /\ student_answers = [a \in {"s1"} \X AnsIdx |-> AnswerRow(a[1], a[2])]
  /\ exams = [e \in ExamIds |-> [subject |-> e, results_published |-> TRUE]]
  /\ RoleInit
  /\ ViewInit
  /\ user = [g \in Sessions |-> IF g = "c1" THEN Some("u2") ELSE Some("u1")]
  /\ role = [g \in Sessions |-> IF g = "c1" THEN "teacher" ELSE "student"]
  /\ id = [g \in Sessions |-> IF g = "c1" THEN Some("s1") ELSE Null]
  /\ loading = [g \in Sessions |-> g # "c1"]
  /\ submission =
       [g \in Sessions |->
          IF g = "c1"
          THEN Some([student_profile |-> profiles["u1"]] @@ Val(selectSubmissionById("s1")))
          ELSE Null]
  /\ answers = [g \in Sessions |-> IF g = "c1" THEN selectAnswersOf("s1") ELSE <<>>]
  /\ fetchPc = [g \in Sessions |-> "idle"]
  /\ subData = [g \in Sessions |-> Null]
  /\ saving = [g \in Sessions |-> FALSE]
  /\ savePc = [g \in Sessions |-> "idle"]
  /\ batch = [g \in Sessions |-> <<>>]
  /\ idx = [g \in Sessions |-> 1]
  /\ toast = [g \in Sessions |-> "none"]
  /\ ops = [g \in Sessions |-> 0]
  /\ requested = [g \in Sessions |-> FALSE]
  /\ pre = [g \in Sessions |-> Null]

\* the teacher types marks and saves, every write succeeding; the student's
\* results list fetches on mount and on every change notification, and the
\* answers arrive in any order
RefetchNext ==
  \E g \in Sessions :
    \/ \E k \in AnsIdx, v \in MarksInput : handleGradeUpdate(g, k, "marks_awarded", Some(v))
    \/ SaveGradingClick(g)
    \/ SaveAnswer(g, TRUE)
    \/ SaveSubmission(g, TRUE)
    \/ \E ok \in BOOLEAN : FetchSubmission(g, ok)
    \/ FetchProfile(g)
    \/ \E ok \in BOOLEAN : FetchAnswers(g, ok)
    \/ StartFetchResults(g)
    \/ \E n \in 1..(MaxOps + 1) : ResultsArrive(g, n)

SpecRefetch == RefetchInit /\ [][RefetchNext]_vars

(* --------------------------- identity tables -------------------------- *)

\* what a signup can carry in raw_user_meta_data ->> 'role': nothing, a label
\* of the app_role enum, or some other text
MetaRoles == {Null} \cup {Some(r) : r \in Roles} \cup {Some("bogus")}
MetaNames == {Null, Some("Ann")}
Emails == {"a@x", "b@x"}
\* the full_name and email of a signup: no name given, or a name
SignupProfiles == {p \in MetaNames \X Emails : p[1] = Null <=> p[2] = "a@x"}

\* COALESCE(a, b)
Coalesce(a, b) == IF a # Null THEN Val(a) ELSE b

\* text::public.app_role: Null when the text is no label of the enum and the
\* cast raises
castRole(text) == IF text \in Roles THEN Some(text) ELSE Null

\* INSERT INTO profiles with no conflict clause: a second row for the user_id
\* raises the unique violation
insertProfile_plain(u, row) ==
  IF profiles[u] = Null
  THEN [raised |-> FALSE, table |-> [profiles EXCEPT ![u] = Some(row)]]
  ELSE [raised |-> TRUE, table |-> profiles]

\* INSERT INTO profiles ... ON CONFLICT (user_id) DO NOTHING
insertProfile(u, row) ==
  IF profiles[u] = Null
  THEN [raised |-> FALSE, table |-> [profiles EXCEPT ![u] = Some(row)]]
  ELSE [raised |-> FALSE, table |-> profiles]

\* the UPDATE of auth.users with no exception block around it
syncErrorCaught_not == FALSE

\* BEGIN UPDATE auth.users ... EXCEPTION WHEN OTHERS THEN RAISE WARNING ... END
syncErrorCaught == TRUE

\* raw_app_metadata ->> 'role' of the user's auth.users row
appRole(u) == IF auth_users[u] = Null THEN Null ELSE Val(auth_users[u]).app_role

\* the trigger function on a new auth.users row; syncOk is whether the UPDATE
\* of auth.users inside the inner BEGIN ... EXCEPTION block succeeds
handle_new_user(u, metaRole, metaName, email, syncOk) ==
  /\ UNCHANGED <<dbVars, detailVars, viewVars>>
  /\ LET initial_role == Coalesce(metaRole, "student")
         row == [full_name |-> Coalesce(metaName, email), email |-> email]
         ins == insertProfile(u, row)
         raised == \/ ins.raised
                   \/ castRole(initial_role) = Null
                   \/ ~syncOk /\ ~syncErrorCaught
     IN IF raised
        THEN \* the exception leaves the function; the statement is rolled back
             /\ op' = [name |-> "handle_new_user_failed", by |-> u,
                       meta_role |-> metaRole, synced |-> FALSE, profile |-> Some(row)]
             /\ UNCHANGED <<profiles, user_roles, auth_users>>
        ELSE /\ profiles' = ins.table
             /\ user_roles' = user_roles \cup {<<u, Val(castRole(initial_role))>>}
             /\ auth_users' =
                  [auth_users EXCEPT ![u] =
                     Some([app_role |-> IF syncOk THEN Some(initial_role) ELSE appRole(u)])]
             /\ op' = [name |-> "handle_new_user", by |-> u,
                       meta_role |-> metaRole, synced |-> syncOk, profile |-> Some(row)]

\* the rows of user_roles of a user
rolesOf(u) == {r \in Roles : <<u, r>> \in user_roles}

\* the one-time UPDATE auth.users u SET ... FROM user_roles r WHERE u.id =
\* r.user_id: a user with several rows is updated from one of them, whichever
\* the join yields first (pick); ok is whether the statement succeeds
SyncExistingUsers(pick, ok) ==
  /\ \A u \in Users :
       IF auth_users[u] # Null /\ rolesOf(u) # {}
       THEN pick[u] \in rolesOf(u)
       ELSE pick[u] = "student"
  /\ IF ok
     THEN /\ auth_users' =
               [u \in Users |->
                  IF auth_users[u] # Null /\ rolesOf(u) # {}
                  THEN Some([app_role |-> Some(pick[u])])
                  ELSE auth_users[u]]
          /\ op' = [NoOp EXCEPT !.name = "sync"]
     ELSE /\ op' = [NoOp EXCEPT !.name = "sync_failed"]
          /\ UNCHANGED auth_users
  /\ UNCHANGED <<profiles, user_roles, dbVars, detailVars, viewVars>>

\* WITH CHECK (auth.uid() = user_id)
insertPolicy(uid, row) == uid = row[1]

\* an authenticated user inserts a row into user_roles through the API
InsertUserRole(uid, row) ==
  /\ auth_users[uid] # Null
  /\ IF insertPolicy(uid, row) /\ row \notin user_roles
     THEN /\ user_roles' = user_roles \cup {row}
          /\ op' = [NoOp EXCEPT !.name = "insert", !.by = uid]
     ELSE /\ op' = [NoOp EXCEPT !.name = "insert_refused", !.by = uid]
          /\ UNCHANGED user_roles
  /\ UNCHANGED <<profiles, auth_users, dbVars, detailVars, viewVars>>

\* auth.jwt() -> 'app_metadata' ->> 'role' of a token issued to u now: the
\* role of raw_app_metadata, SQL NULL when there is none
jwtRole(u) == appRole(u)

\* SELECT (auth.jwt() -> 'app_metadata' ->> 'role') = 'admin'; a NULL result
\* grants nothing
is_admin(jwt) == jwt = Some("admin")

is_teacher(jwt) == jwt = Some("teacher") \/ jwt = Some("admin")

\* public.has_role(auth.uid(), 'admin') of the classes and subjects policies:
\* the user has the row in user_roles
has_role(uid, r) == <<uid, r>> \in user_roles

\* user_roles FOR SELECT USING (auth.uid() = user_id OR role claim IN (...))
userRolesSelectPolicy(uid, jwt, row) ==
  uid = row[1] \/ jwt \in {Some("admin"), Some("teacher")}

\* profiles FOR SELECT USING (auth.uid() = user_id OR role claim IN (...))
profilesSelectPolicy(uid, jwt, user_id) ==
  uid = user_id \/ jwt \in {Some("admin"), Some("teacher")}

\* no account exists
RolesInit ==
  /\ profiles = [u \in Users |-> Null]
  /\ user_roles = {}
  /\ auth_users = [u \in Users |-> Null]
  /\ op = NoOp
  /\ exam_submissions = [s \in {} |-> 0]
  /\ student_answers = [a \in {} |-> 0]
  /\ exams = [e \in {} |-> 0]
  /\ user = [g \in Sessions |-> Null]
  /\ role = [g \in Sessions |-> "none"]
  /\ DetailInit
  /\ ViewInit

RolesNext ==
  \/ \E u \in Users, metaRole \in MetaRoles, p \in SignupProfiles, syncOk \in BOOLEAN :
       handle_new_user(u, metaRole, p[1], p[2], syncOk)
  \/ \E pick \in [Users -> Roles], ok \in BOOLEAN :
       SyncExistingUsers(pick, ok)
  \/ \E uid \in Users, row \in Users \X Roles :
       InsertUserRole(uid, row)

SpecRoles == RolesInit /\ [][RolesNext]_vars

\* signups with a role of the enum and synchronizations, all of which succeed
SyncNext ==
  \/ \E u \in Users, metaRole \in MetaRoles \ {Some("bogus")}, p \in SignupProfiles :
       handle_new_user(u, metaRole, p[1], p[2], TRUE)
  \/ \E pick \in [Users -> Roles] : SyncExistingUsers(pick, TRUE)

SpecSync == RolesInit /\ [][SyncNext]_vars

\* role assignments that complete: signups with a role of the enum whose
\* synchronization succeeds, and rows inserted through the API; each is one
\* transaction, and two for the same user commit in either order
AssignNext ==
  \/ \E u \in Users, metaRole \in MetaRoles \ {Some("bogus")}, p \in SignupProfiles :
       handle_new_user(u, metaRole, p[1], p[2], TRUE)
  \/ \E uid \in Users, row \in Users \X Roles : InsertUserRole(uid, row)

SpecAssign == RolesInit /\ [][AssignNext]_vars

(* ------------------------------ role claims --------------------------- *)

\* the most privileged role among the user's rows of user_roles
resolveRole(u) ==
  IF <<u, "admin">> \in user_roles THEN "admin"
  ELSE IF <<u, "teacher">> \in user_roles THEN "teacher"
  ELSE IF <<u, "student">> \in user_roles THEN "student"
  ELSE "none"

\* C6: a row is added to user_roles only by the signup handler or by a
\* requester whose resolved role is admin; a student or teacher cannot add a
\* row, not even one for their own user_id.
C6_RoleRowsOnlyBySignupOrAdmin ==
  [][\A row \in user_roles' \ user_roles :
       \/ op'.name = "handle_new_user"
       \/ resolveRole(op'.by) = "admin"]_vars

\* C11: after any sequence of account creations and role synchronizations that
\* all succeeded, the app_metadata role of every user is the user's effective
\* role, the most privileged of the user's rows in user_roles.
C11_ClaimIsEffectiveRole ==
  \A u \in Users : auth_users[u] # Null => appRole(u) = Some(resolveRole(u))

\* the app_metadata role of u is absent, or the last signup of u could not
\* synchronize it
claimAbsentOrSyncFailed(u) ==
  /\ auth_users[u] # Null
  /\ \/ appRole(u) = Null
     \/ op.name = "handle_new_user" /\ op.by = u /\ ~op.synced

\* C12: a user whose app_metadata role is absent or could not be synchronized
\* and whose rows of user_roles make them teacher or admin is treated as
\* teacher (is_teacher, reading every row of user_roles and profiles), and as
\* admin by is_admin when a row says admin.
C12_RoleTableFallback ==
  \A u \in Users :
    claimAbsentOrSyncFailed(u) =>
      /\ resolveRole(u) \in {"teacher", "admin"} =>
           /\ is_teacher(jwtRole(u))
           /\ \A row \in user_roles : userRolesSelectPolicy(u, jwtRole(u), row)
           /\ \A v \in Users : profilesSelectPolicy(u, jwtRole(u), v)
      /\ resolveRole(u) = "admin" => is_admin(jwtRole(u))

\* the last request was an account creation, which succeeded or raised
signupServed == op.name \in {"handle_new_user", "handle_new_user_failed"}

\* the role the event of the last account creation asks for is one of the enum
\* or is not given
validRoleAsked == op.meta_role \in {Null} \cup {Some(r) : r \in Roles}

\* the role of the event of the last account creation, student when none is
\* given or the text is not a role
roleToAssign ==
  IF op.meta_role \in {Some(r) : r \in Roles} THEN Val(op.meta_role) ELSE "student"

\* C13: when the handler's synchronization of the claim fails, the account
\* creation still succeeds and the profile row and the role row of the same
\* invocation are committed; the claim keeps the value it had.
C13_SyncFailureKeepsRows ==
  [][\A u \in Users :
       (signupServed' /\ op'.by = u /\ validRoleAsked' /\ ~op'.synced) =>
         /\ op'.name = "handle_new_user"
         /\ auth_users'[u] # Null
         /\ profiles'[u] # Null
         /\ profiles[u] = Null => profiles'[u] = op'.profile
         /\ <<u, roleToAssign'>> \in user_roles'
         /\ appRole(u)' = appRole(u)]_vars

\* a first signup whose synchronization failed: the rows are there, the claim
\* is not
C13_Witness ==
  /\ op.name = "handle_new_user"
  /\ ~op.synced
  /\ appRole(op.by) = Null
  /\ profiles[op.by] = op.profile
  /\ rolesOf(op.by) = {roleToAssign}

\* C14: every invocation of the handler with a role of the enum, the first and
\* each repeated one, raises no error and leaves one profile row for the
\* user_id and one role row for the (user_id, role) pair; an invocation for a
\* user_id that has both rows changes neither table.
C14_HandlerIdempotent ==
  [][(signupServed' /\ validRoleAsked') =>
       /\ op'.name = "handle_new_user"
       /\ profiles'[op'.by] # Null
       /\ \A v \in Users \ {op'.by} : profiles'[v] = profiles[v]
       /\ user_roles' = user_roles \cup {<<op'.by, roleToAssign'>>}
       /\ Cardinality({row \in user_roles' : row = <<op'.by, roleToAssign'>>}) = 1
       /\ (profiles[op'.by] # Null /\ <<op'.by, roleToAssign'>> \in user_roles) =>
            (profiles' = profiles /\ user_roles' = user_roles)]_vars

\* the handler has run again for a user who had a profile: the profile is not
\* the one of the last event, and the user has a single role row
C14_Witness ==
  /\ op.name = "handle_new_user"
  /\ profiles[op.by] # Null
  /\ profiles[op.by] # op.profile
  /\ rolesOf(op.by) = {roleToAssign}

\* C15: after the handler has run, the profile row of the user_id holds the
\* full_name and email of the event, also when the user had a profile before.
C15_ProfileUpserted ==
  op.name = "handle_new_user" => profiles[op.by] = op.profile

\* C16: an account creation succeeds and assigns the role asked for when it is
\* student, teacher or admin, and student when none is given or the value is
\* not a role of the enum.
C16_RoleAssignedOrDefault ==
  signupServed =>
    /\ op.name = "handle_new_user"
    /\ <<op.by, roleToAssign>> \in user_roles

(* ------------------------------ grading claims ------------------------ *)

\* the sum of the stored marks_awarded of a submission's answers
StoredSum(sub) == SumMarks([i \in AnsIdx |-> student_answers[AnswerId(sub, i)]], NAns)

\* C1: in every reachable state, a submission with is_graded = true has
\* total_score equal to the sum of the stored marks_awarded of its answers.
C1_GradedTotalIsSum ==
  \A s \in DOMAIN exam_submissions :
    exam_submissions[s].is_graded => exam_submissions[s].total_score = StoredSum(s)

\* what saveGrading of session g stores when every write of it succeeds
NewStored(g) ==
  [sub |-> submissionUpdate(Val(pre[g]).sub, batch[g]),
   ans |-> [i \in AnsIdx |->
              IF i \in DOMAIN batch[g]
              THEN answerUpdate(Val(pre[g]).ans[i], batch[g][i])
              ELSE Val(pre[g]).ans[i]]]

\* saveGrading of session g ends in this step
SaveEnds(g) == saving[g] /\ ~saving'[g]

\* C2: saveGrading is all-or-nothing: when it ends, in success or in failure,
\* the stored answers and submission hold all the new values or all the values
\* they had before the call.
C2_AllOrNothing ==
  [][\A g \in Sessions :
       SaveEnds(g) =>
         \/ Stored(Val(id[g]))' = NewStored(g)
         \/ Stored(Val(id[g]))' = Val(pre[g])]_vars

\* C3: when one of the per-answer writes of saveGrading fails, the submission
\* row is what it was before the call: is_graded and total_score keep their
\* prior values.
C3_FailedAnswerWriteLeavesSubmission ==
  [][\A g \in Sessions :
       (savePc[g] = "answers" /\ SaveEnds(g)) =>
         exam_submissions'[Val(id[g])] = Val(pre[g]).sub]_vars

\* a not-yet-graded submission whose first answer was written and whose
\* saveGrading then failed on a later answer
C3_Witness ==
  \E g \in Sessions :
    /\ toast[g] = "Error"
    /\ id[g] = Some("s1")
    /\ student_answers[AnswerId("s1", 1)].marks_awarded # Null
    /\ ~exam_submissions["s1"].is_graded
    /\ exam_submissions["s1"].total_score = 0

\* C4: every answer of a graded submission has 0 <= marks_awarded <=
\* question.marks; an out-of-range value is rejected and nothing is written.
C4_MarksInRange ==
  \A s \in DOMAIN exam_submissions :
    exam_submissions[s].is_graded =>
      \A i \in AnsIdx :
        LET a == student_answers[AnswerId(s, i)]
        IN a.marks_awarded # Null =>
             /\ 0 <= Val(a.marks_awarded)
             /\ Val(a.marks_awarded) <= QuestionMarks(a.question_id)

gradingOf(st) ==
  [total_score |-> st.sub.total_score,
   is_graded |-> st.sub.is_graded,
   marks |-> [i \in AnsIdx |-> st.ans[i].marks_awarded]]

\* the same, as the finished fetchData of session g has put it on the view
observedBy(g) ==
  [total_score |-> Val(submission[g]).total_score,
   is_graded |-> Val(submission[g]).is_graded,
   marks |-> [i \in AnsIdx |-> answers[g][i].marks_awarded]]

\* s1 as stored before the one grading of it
PreGrading ==
  [sub |-> SubmissionRow("u1", "e1", Some(1), 0, NAns * QMarks, FALSE),
   ans |-> [i \in AnsIdx |-> AnswerRow("s1", i)]]

\* s1 as stored after the one grading of it, all of whose writes succeed: what
\* the running saveGrading will have stored or, with none running, what is
\* stored
PostGrading ==
  IF \E c \in Sessions : saving[c]
  THEN NewStored(CHOOSE c \in Sessions : saving[c])
  ELSE Stored("s1")

\* C17: the fetchData of a reader that runs beside the saveGrading of the same
\* submission shows total_score, is_graded and the answers' marks as they were
\* all before the grading or as they are all after it.
C17_ReadIsPreOrPost ==
  \A g \in Sessions :
    (role[g] = "student" /\ fetchPc[g] = "idle" /\ Rendered(g) /\ Len(answers[g]) = NAns) =>
      observedBy(g) \in {gradingOf(PreGrading), gradingOf(PostGrading)}

(* ------------------------ the student's pages ------------------------- *)

\* where a submission is in its lifecycle: started, submitted, or graded with
\* no marks or with full marks
LifeStates == {"started", "submitted", "gradedNone", "gradedFull"}

ownerOf(s) == IF s = "s3" THEN "u2" ELSE "u1"
examIdOf(s) == IF s = "s2" THEN "e2" ELSE "e1"
submittedAtOf(s) == IF s = "s1" THEN 1 ELSE IF s = "s2" THEN 2 ELSE 3

\* three submissions of two students in two exams, each anywhere in its
\* lifecycle, each exam published or not; one student is signed in
ViewsInit ==
  /\ \E life \in [SubIds -> LifeStates] :
       /\ exam_submissions =
            [s \in SubIds |->
               SubmissionRow(ownerOf(s), examIdOf(s),
                             IF life[s] = "started" THEN Null ELSE Some(submittedAtOf(s)),
                             IF life[s] = "gradedFull" THEN NAns * QMarks ELSE 0,
                             NAns * QMarks,
                             life[s] \in {"gradedNone", "gradedFull"})]
       /\ student_answers =
            [a \in SubIds \X AnsIdx |->
               [AnswerRow(a[1], a[2]) EXCEPT
                  !.marks_awarded = IF life[a[1]] = "gradedFull" THEN Some(QMarks)
                                    ELSE IF life[a[1]] = "gradedNone" THEN Some(0)
                                    ELSE Null]]
  /\ \E pub \in [ExamIds -> BOOLEAN] :
       exams = [e \in ExamIds |-> [subject |-> e, results_published |-> pub[e]]]
  /\ \E u \in Users :
       user = [g \in Sessions |-> IF g = "c1" THEN Some(u) ELSE Null]
  /\ role = [g \in Sessions |-> IF g = "c1" THEN "student" ELSE "none"]
  /\ DetailInit
  /\ ViewInit
  /\ RoleInit

\* the signed-in student opens the results list, the report card and the
\* detail view of any submission id
ViewsNext ==
  \E g \in Sessions :
    \/ \E ok \in BOOLEAN : fetchResults(g, ok)
    \/ \E okProfile \in BOOLEAN, ok \in BOOLEAN : fetchReportData(g, okProfile, ok)
    \/ \E i \in SubIds : Mount(g, i)
    \/ \E ok \in BOOLEAN : FetchSubmission(g, ok)
    \/ FetchProfile(g)
    \/ \E ok \in BOOLEAN : FetchAnswers(g, ok)

SpecViews == ViewsInit /\ [][ViewsNext]_vars

(* ------------------------- scores and letters ------------------------- *)

\* (total_score, max_score) of a graded submission: every score out of every
\* maximum up to MaxScore, the exam without marks (0 of 0) included, and every
\* score out of PctScale, which gives each whole percentage
Scores ==
  {p \in (0..MaxScore) \X (0..MaxScore) : p[1] <= p[2]}
    \cup {<<t, PctScale>> : t \in 0..PctScale}

\* the student's one submission is graded with some score and published
GradesInit ==
  /\ \E p \in Scores :
       exam_submissions =
         [s \in {"s1"} |-> SubmissionRow("u1", "e1", Some(1), p[1], p[2], TRUE)]
  /\ student_answers = [a \in {"s1"} \X AnsIdx |-> AnswerRow(a[1], a[2])]
  /\ exams = [e \in ExamIds |-> [subject |-> e, results_published |-> TRUE]]
  /\ user = [g \in Sessions |-> IF g = "c1" THEN Some("u1") ELSE Null]
  /\ role = [g \in Sessions |-> IF g = "c1" THEN "student" ELSE "none"]
  /\ DetailInit
  /\ ViewInit
  /\ RoleInit

\* the student opens the results list, the report card and the detail view
GradesNext ==
  \E g \in Sessions :
    \/ \E ok \in BOOLEAN : fetchResults(g, ok)
    \/ \E okProfile \in BOOLEAN, ok \in BOOLEAN : fetchReportData(g, okProfile, ok)
    \/ Mount(g, "s1")
    \/ \E ok \in BOOLEAN : FetchSubmission(g, ok)
    \/ FetchProfile(g)
    \/ \E ok \in BOOLEAN : FetchAnswers(g, ok)

SpecGrades == GradesInit /\ [][GradesNext]_vars

\* (total_score, max_score) of each of two graded submissions
Parts == {p \in (0..MaxPart) \X (1..MaxPart) : p[1] <= p[2]}

\* the student's two submissions, of two exams, are graded and published
AggregateInit ==
  /\ \E p \in Parts, q \in Parts :
       exam_submissions =
         [s \in {"s1", "s2"} |->
            IF s = "s1" THEN SubmissionRow("u1", "e1", Some(1), p[1], p[2], TRUE)
                        ELSE SubmissionRow("u1", "e2", Some(2), q[1], q[2], TRUE)]
  /\ student_answers = [a \in {} |-> 0]
  /\ exams = [e \in ExamIds |-> [subject |-> e, results_published |-> TRUE]]
  /\ user = [g \in Sessions |-> IF g = "c1" THEN Some("u1") ELSE Null]
  /\ role = [g \in Sessions |-> IF g = "c1" THEN "student" ELSE "none"]
  /\ DetailInit
  /\ ViewInit
  /\ RoleInit

\* the student opens the report card
AggregateNext ==
  \E g \in Sessions, okProfile \in BOOLEAN, ok \in BOOLEAN : fetchReportData(g, okProfile, ok)

SpecAggregate == AggregateInit /\ [][AggregateNext]_vars

(* ------------------------------ view claims --------------------------- *)

\* the cards the results list of session g renders
cardsOf(g) == {<<results[g][k], resultCard(results[g][k])>> : k \in DOMAIN results[g]}

\* a result row is graded and its exam's results are published
gradedAndPublished(r) ==
  r.is_graded /\ r.exam # Null /\ Val(r.exam).results_published

\* a card shows nothing of the score
noScoreShown(c) == c.score = Null /\ c.pct = Null /\ c.grade = Null /\ c.passed = Null

\* C7: the results list shows total_score, percentage, letter grade, pass/fail
\* or the link to the graded detail only when the submission is graded and the
\* exam's results are published.
C7_DetailOnlyWhenGradedAndPublished ==
  \A g \in Sessions : \A rc \in cardsOf(g) :
    (~noScoreShown(rc[2]) \/ rc[2].detailLink) => gradedAndPublished(rc[1])

\* C8: a graded submission whose exam is not published is shown as Results
\* Pending, with no score, percentage or letter grade.
C8_GradedUnpublishedIsPending ==
  \A g \in Sessions : \A rc \in cardsOf(g) :
    (rc[1].is_graded /\ ~Val(rc[1].exam).results_published) =>
      /\ rc[2].pending
      /\ rc[2].score = Null /\ rc[2].pct = Null /\ rc[2].grade = Null

\* the list holds a graded submission of an unpublished exam
C8_Witness ==
  \E g \in Sessions : \E rc \in cardsOf(g) :
    rc[1].is_graded /\ ~Val(rc[1].exam).results_published /\ rc[2].pending

\* the submissions of u that are graded and whose exam is published
eligibleFor(u) ==
  {s \in DOMAIN exam_submissions :
     /\ exam_submissions[s].student_id = u
     /\ exam_submissions[s].is_graded
     /\ exams[exam_submissions[s].exam_id].results_published}

RECURSIVE sumOver(_, _)
sumOver(S, field) ==
  IF S = {} THEN 0
  ELSE LET s == CHOOSE x \in S : TRUE
       IN (IF field = "total_score" THEN exam_submissions[s].total_score
                                    ELSE exam_submissions[s].max_score)
          + sumOver(S \ {s}, field)

reportIds(g) == {data[g].results[k].id : k \in DOMAIN data[g].results}

\* C9: the report card's rows are exactly the requesting student's graded
\* submissions of published exams, one row each, and its totals are theirs; no
\* other submission is ever a row.
C9_ReportRowsAreGradedAndPublished ==
  \A g \in Sessions :
    /\ user[g] # Null => reportIds(g) \subseteq eligibleFor(Val(user[g]))
    /\ dataOk[g] =>
         /\ reportIds(g) = eligibleFor(Val(user[g]))
         /\ Len(data[g].results) = Cardinality(eligibleFor(Val(user[g])))
         /\ calculateStats(data[g].results).totalObtained
              = sumOver(eligibleFor(Val(user[g])), "total_score")
         /\ calculateStats(data[g].results).totalMax
              = sumOver(eligibleFor(Val(user[g])), "max_score")

\* a report card with a row, while the student also has a graded submission of
\* an unpublished exam and another student has a graded, published one
C9_Witness ==
  \E g \in Sessions :
    /\ dataOk[g]
    /\ reportIds(g) # {}
    /\ \E s \in DOMAIN exam_submissions :
         /\ exam_submissions[s].student_id = Val(user[g])
         /\ exam_submissions[s].is_graded
         /\ ~exams[exam_submissions[s].exam_id].results_published
    /\ \E s \in DOMAIN exam_submissions :
         /\ exam_submissions[s].student_id # Val(user[g])
         /\ exam_submissions[s].is_graded
         /\ exams[exam_submissions[s].exam_id].results_published

\* C10: a submission whose submitted_at is null is never returned by the
\* results list, the report card or the grading view's submission fetch.
C10_InProgressNeverReturned ==
  \A g \in Sessions :
    /\ \A k \in DOMAIN results[g] : results[g][k].submitted_at # Null
    /\ \A k \in DOMAIN data[g].results : data[g].results[k].submitted_at # Null
    /\ submission[g] # Null => Val(submission[g]).submitted_at # Null

(* ----------------------------- letter claims -------------------------- *)

\* C18: for a submission with max_score > 0 and 0 <= total_score <= max_score
\* the results list, the row of the report card and the aggregate of a report
\* card with that one row show the same letter grade.
C18_SameLetterEverywhere ==
  \A g \in Sessions :
    \A k \in DOMAIN results[g] : \A j \in DOMAIN data[g].results :
      LET r == results[g][k]
          card == resultCard(r)
          row == reportRow(data[g].results[j])
      IN (/\ row.id = card.id
          /\ card.grade # Null
          /\ r.max_score > 0 /\ 0 <= r.total_score /\ r.total_score <= r.max_score) =>
           /\ row.grade = Val(card.grade)
           /\ Len(data[g].results) = 1 =>
                calculateStats(data[g].results).grade = Val(card.grade)

\* C19: a card of the results list with the whole percentage pct in 0..100
\* shows A iff pct >= 90, B iff 80 <= pct <= 89, C iff 70 <= pct <= 79, D iff
\* 60 <= pct <= 69 and F iff pct <= 59, and Passed iff pct >= 60, which is iff
\* the letter is not F.
C19_GradeThresholds ==
  \A g \in Sessions : \A rc \in cardsOf(g) :
    (rc[2].pct # Null /\ Val(rc[2].pct).k = "num" /\ Val(rc[2].pct).v \in 0..PctScale) =>
      LET pct == Val(rc[2].pct).v
          letter == Val(rc[2].grade)
      IN /\ letter = "A" <=> pct >= 90
         /\ letter = "B" <=> (80 <= pct /\ pct <= 89)
         /\ letter = "C" <=> (70 <= pct /\ pct <= 79)
         /\ letter = "D" <=> (60 <= pct /\ pct <= 69)
         /\ letter = "F" <=> pct <= 59
         /\ Val(rc[2].passed) <=> pct >= 60
         /\ Val(rc[2].passed) <=> letter # "F"

\* the list shows a card at exactly 90 percent: an A, passed
C19_Witness ==
  \E g \in Sessions : \E rc \in cardsOf(g) :
    /\ rc[2].pct = Some(Num(90))
    /\ rc[2].grade = Some("A")
    /\ rc[2].passed = Some(TRUE)
    /\ rc[1].max_score = PctScale

\* C20: the report card's aggregate percentage is round(sum of total_score /
\* sum of max_score * 100) over its submissions, and its aggregate letter is
\* the bucket of that percentage under the threshold table of getGrade.
C20_AggregateIsWeightedAndBucketed ==
  \A g \in Sessions :
    (dataOk[g] /\ user[g] # Null /\ sumOver(eligibleFor(Val(user[g])), "max_score") > 0) =>
      LET stats == calculateStats(data[g].results)
          aggregate_pct == roundPct(sumOver(eligibleFor(Val(user[g])), "total_score"),
                                    sumOver(eligibleFor(Val(user[g])), "max_score"))
      IN /\ stats.average = aggregate_pct
         /\ stats.grade = getGrade(aggregate_pct)

\* C21: with max_score = 0 every percentage shown is 0: on the card of the
\* results list, in the row of the report card, in its aggregate and in the
\* summary of the grading view; none is NaN or Infinity.
C21_ZeroMaxIsZeroPercent ==
  \A g \in Sessions :
    /\ \A rc \in cardsOf(g) :
         (rc[1].max_score = 0 /\ rc[2].pct # Null) => rc[2].pct = Some(Num(0))
    /\ \A j \in DOMAIN data[g].results :
         data[g].results[j].max_score = 0 => reportRow(data[g].results[j]).pct = Num(0)
    /\ calculateStats(data[g].results).totalMax = 0 =>
         calculateStats(data[g].results).average = Num(0)
    /\ (Rendered(g) /\ Val(submission[g]).max_score = 0) =>
         detailSummary(Val(submission[g])).pct = Num(0)

(* ------------------------- more role claims --------------------------- *)

\* C22: a signed-up requester may read a profile row if and only if the row
\* is their own or their role, the most privileged of their rows of
\* user_roles, is teacher or admin.
C22_ProfileReadSelfOrElevated ==
  \A u \in Users : \A v \in Users :
    (auth_users[u] # Null /\ profiles[v] # Null) =>
      (profilesSelectPolicy(u, jwtRole(u), v)
         <=> (u = v \/ resolveRole(u) \in {"teacher", "admin"}))

\* C23: when two role assignments for the same user, two signups or a signup
\* and an inserted row, have both completed, in either order, and the user
\* has the two rows, the app_metadata role is the more privileged of them.
C23_TwoAssignmentsAgree ==
  \A u \in Users :
    (auth_users[u] # Null /\ Cardinality(rolesOf(u)) = 2) =>
      appRole(u) = Some(resolveRole(u))

(* ------------------------ more grading claims ------------------------- *)

\* C24: a graded submission is a submitted one: is_graded implies that
\* submitted_at is set, and no saveGrading sets is_graded or total_score of a
\* submission whose submitted_at is null.
C24_GradedOnlyAfterSubmitted ==
  \A s \in DOMAIN exam_submissions :
    exam_submissions[s].is_graded => exam_submissions[s].submitted_at # Null

\* C25: when the saveGrading of two graders of the same submission, each
\* started from the grader's own copy of the answers, have both ended in
\* success, the stored total_score is the sum of the stored marks_awarded.
C25_ConcurrentGradersTotalIsSum ==
  (\A g \in Sessions : toast[g] = "Success" /\ ~saving[g]) =>
    exam_submissions["s1"].total_score = StoredSum("s1")

\* C26: for every signed-up user the admin check on the token's role,
\* is_admin, and the admin check on the role table, has_role(uid, 'admin') of
\* the classes and subjects policies, agree.
C26_AdminChecksAgree ==
  \A u \in Users :
    auth_users[u] # Null => (is_admin(jwtRole(u)) <=> has_role(u, "admin"))

\* C27: when saveGrading ends in success, every answer of the submission has
\* a stored marks_awarded that is not null, also an answer whose marks the
\* grader never edited.  Stated for a grader whose view has loaded the answers.
C27_GradedAnswersHaveMarks ==
  [][\A g \in Sessions :
       (SaveEnds(g) /\ toast'[g] = "Success" /\ Len(batch[g]) = NAns) =>
         \A i \in AnsIdx :
           student_answers'[AnswerId(Val(id[g]), i)].marks_awarded # Null]_vars

(* ------------------------- refetch claims ----------------------------- *)

\* every notification has started its fetchResults and every answer has
\* arrived
refetchQuiet(g) ==
  /\ user[g] # Null
  /\ fetches[g].sent > 0
  /\ fetches[g].pending = {}
  /\ fetches[g].known = resultsQuery(Val(user[g]))

\* C28: once the notifications have stopped and the answers of all the
\* fetchResults calls have arrived, in whatever order, the results list shows
\* the stored state; and the answer of an older call never replaces that of a
\* newer one.
C28_RefetchShowsLatest ==
  /\ [](\A g \in Sessions : refetchQuiet(g) => results[g] = resultsQuery(Val(user[g])))
  /\ [][\A g \in Sessions : fetches'[g].shown >= fetches[g].shown]_vars

====
